---- MODULE Spec2Model ----
(***************************************************************************)
(* State-machine model of the AxiosInstance class of                       *)
(* axios-oauth2-token-refresher (src/src/index.ts): the token storage, the *)
(* single-flight refresh closure, the request interceptor (RequestGate,    *)
(* GateResume) and the response error interceptor (ResponseRejected,       *)
(* RecoveryResume).                                                        *)
(*                                                                         *)
(* JavaScript runs one job at a time; every action below is one job (a     *)
(* call, a promise reaction or an I/O completion) and runs atomically.     *)
(* Promise reactions that are due run before the next I/O completion is    *)
(* delivered; among themselves, and with new calls of the client and the   *)
(* clock, they are taken in any order.                                     *)
(***************************************************************************)
EXTENDS Integers, Sequences, FiniteSets, TLC

\* ------------------------------------------------------------------ bounds
NReq == 2
MaxRefresh == 2
MaxResubmit == 2
StartSec == 2
MaxNowSec == 3

\* ------------------------------------------------------- program constants
MsPerSecond == 1000
HttpOk == 200
HttpUnauthorized == 401

\* Statuses of the environment that the code does not name.
HttpNoContent == 204
HttpServerError == 500
NetworkError == 0

Requests == 1..NReq
AttemptIds == 1..MaxRefresh

\* ------------------------------------------------------------ JS values
Null == "<null>"
Undefined == "<undefined>"

\* JavaScript truthiness of the string-or-nothing values the code handles.
Truthy(v) == v \notin {"", Null, Undefined}

\* a || b
OrElse(a, b) == IF Truthy(a) THEN a ELSE b

\* String(v), as done by Storage.setItem and by the template literal `${value}`.
JsString(v) == IF v = Undefined THEN "undefined" ELSE IF v = Null THEN "null" ELSE v

\* ---------------------------------------------------------------- options
Storages == {"localStorage", "sessionStorage", "cookie"}

accessTokenStorageKey == "accessToken"
refreshTokenStorageKey == "refreshToken"
StorageKeys == {accessTokenStorageKey, refreshTokenStorageKey}

\* The URLs requests are made to; RefresherUrl is the configured endpoint.
RefresherUrl == "/token"
ApiUrl == "/api"
Urls == {ApiUrl, RefresherUrl}

\* baseURL of the client, and a refresher endpoint given as an absolute URL.
BaseUrl == "http://localhost:5000"
AbsoluteRefresherUrl == "https://auth.example/token"

\* The configurations explored: endpoint configured or not; the access token
\* in localStorage and the refresh token in a cookie. isBearer and
\* tokenRefresherPayloadGenerator are the options the README documents beside
\* those of AxiosInstanceOptions; here they are left out (false, undefined).
StorageChoices == {<<"localStorage", "cookie">>}
OptionSet == {[baseURL |-> BaseUrl, accessTokenRefresherEndpoint |-> e, accessTokenStorage |-> s[1], refreshTokenStorage |-> s[2], isBearer |-> FALSE, tokenRefresherPayloadGenerator |-> Undefined] : e \in {"", RefresherUrl}, s \in StorageChoices}

\* The configurations that use the documented options: the endpoint relative
\* or absolute, isBearer given or not, a payload generator given or not. A
\* generator is named by the field it wraps the refresh token in, as in the
\* README's (token) => ({ refresh_token: token }).
DocumentedOptionSet == {[baseURL |-> BaseUrl, accessTokenRefresherEndpoint |-> e, accessTokenStorage |-> s[1], refreshTokenStorage |-> s[2], isBearer |-> b, tokenRefresherPayloadGenerator |-> g] : e \in {RefresherUrl, AbsoluteRefresherUrl}, s \in StorageChoices, b \in BOOLEAN, g \in {Undefined, "refresh_token"}}

\* ------------------------------------------------------------------ axios
\* axios' isAbsoluteURL, combineURLs and buildFullPath on the urls explored;
\* the axios imported by the module is the default instance, without baseURL.
isAbsoluteURL(url) == url \in {AbsoluteRefresherUrl}
combineURLs(baseURL, relativeURL) == baseURL \o relativeURL
buildFullPath(baseURL, requestedURL) == IF Truthy(baseURL) /\ ~isAbsoluteURL(requestedURL) THEN combineURLs(baseURL, requestedURL) ELSE requestedURL
DefaultAxiosBaseURL == Undefined

\* ----------------------------------------------------------------- tokens
\* Well-formed access tokens and the exp claim (seconds) each one carries.
JwtExp == ("A1" :> 1) @@ ("A2" :> 2) @@ ("A3" :> 4)
WellFormed == DOMAIN JwtExp

\* jwtDecode(token): the claims of a well-formed token; a DecodeError otherwise.
DecodeFails(token) == token \notin WellFormed
jwtDecode(token) == [exp |-> JwtExp[token]]

\* What the refresher endpoint may put in a 200 response body.
RespAccessTokens == {Undefined, "", "A2", "A3"}
RespRefreshTokens == {Undefined, "", "R2"}

\* What the stores may hold when the instance is constructed: the access and
\* the refresh token, Null for a token never stored.
InitTokenPairs == {<<Null, Null>>, <<"A1", "R1">>, <<"A2", "R1">>}

VARIABLES options, now, storage, isCalled, runningPromise, attempts, nAttempts, req

vars == <<options, now, storage, isCalled, runningPromise, attempts, nAttempts, req>>

\* ---------------------------------------------------------------- storage
\* document.cookie is a jar of name/value pairs, kept in the order the names
\* were first set; reading it lists them as "name=value; name=value".
CookieNames(jar) == {jar[i].name : i \in 1..Len(jar)}

\* Assigning "name=value" to document.cookie: the browser takes the text up to
\* the first ";" as the cookie pair and what follows as attributes. Of the
\* values explored only SemicolonToken holds a ";".
SemicolonToken == "R;x"
UpToSemicolon == (SemicolonToken :> "R")
CookiePairValue(value) == IF value \in DOMAIN UpToSemicolon THEN UpToSemicolon[value] ELSE value

\* document.cookie = `${key}=${value}`: sets or replaces the cookie named key.
SetCookie(jar, key, value) == IF key \in CookieNames(jar) THEN [i \in 1..Len(jar) |-> IF jar[i].name = key THEN [name |-> key, value |-> CookiePairValue(value)] ELSE jar[i]] ELSE Append(jar, [name |-> key, value |-> CookiePairValue(value)])

\* The loop of getCookieValue from index i on: the first cookie that starts
\* with name + "=" gives its value; "" when none does.
RECURSIVE CookieScan(_, _, _)
CookieScan(jar, name, i) == IF i > Len(jar) THEN "" ELSE IF jar[i].name = name THEN jar[i].value ELSE CookieScan(jar, name, i + 1)

getCookieValue(jar, name) == CookieScan(jar, name, 1)

getStorage(st, s, key, defaultValue) ==
    IF s = "localStorage" THEN OrElse(st.localStorage[key], defaultValue)
    ELSE IF s = "sessionStorage" THEN OrElse(st.sessionStorage[key], defaultValue)
    ELSE IF s = "cookie" THEN OrElse(getCookieValue(st.cookie, key), defaultValue)
    ELSE ""

setStorage(st, s, key, value) ==
    IF s = "localStorage" THEN [st EXCEPT !.localStorage[key] = JsString(value)]
    ELSE IF s = "sessionStorage" THEN [st EXCEPT !.sessionStorage[key] = JsString(value)]
    ELSE IF s = "cookie" THEN [st EXCEPT !.cookie = SetCookie(st.cookie, key, JsString(value))]
    ELSE st

clearStorage_AccessOnly(st) == setStorage(st, options.accessTokenStorage, accessTokenStorageKey, "")

clearStorage(st) ==
    setStorage(setStorage(st, options.accessTokenStorage, accessTokenStorageKey, ""), options.refreshTokenStorage, refreshTokenStorageKey, "")

\* The stored tokens as the code reads them.
StoredAccessToken(st) == getStorage(st, options.accessTokenStorage, accessTokenStorageKey, "")
StoredRefreshToken(st) == getStorage(st, options.refreshTokenStorage, refreshTokenStorageKey, "")

EmptyStorage == [localStorage |-> [k \in StorageKeys |-> Null], sessionStorage |-> [k \in StorageKeys |-> Null], cookie |-> <<>>]

\* The storage a page holds before the instance is constructed: each token
\* absent, or set earlier under its configured backend and key.
PutIfPresent(st, s, key, value) == IF value = Null THEN st ELSE setStorage(st, s, key, value)

InitialStorage(o, a, r) == PutIfPresent(PutIfPresent(EmptyStorage, o.accessTokenStorage, accessTokenStorageKey, a), o.refreshTokenStorage, refreshTokenStorageKey, r)

\* ------------------------------------------------------ refresh coordinator
\* One attempt is one call of obtainNewAccessToken and the promise chain
\* refreshExpiredTokenClosure builds on it:
\*   "posting"  the POST is in flight (obtainNewAccessToken is suspended)
\*   "then"     obtainNewAccessToken has settled, the .then reaction is due
\*   "finally"  the .then promise has settled, the .finally reaction is due
\*   "settled"  runningPromise of this attempt has settled
\* posted: a POST was issued; target and payload: the URL and the body (a field
\* name and its value) of the POST in flight;
\* result: how the promise of the current phase settled; fail: why
\* obtainNewAccessToken rejected; accessToken/refreshToken: the TokenResponse
\* (refreshToken is dropped once the .then reaction has used it); status: the
\* status the POST was answered with, kept until the .then reaction.
NoAttempt == [phase |-> "none", posted |-> FALSE, target |-> "", payload |-> <<>>, status |-> NetworkError, result |-> "pending", fail |-> "none", accessToken |-> "", refreshToken |-> ""]

\* axios.post(endpoint, ...): the URL the default axios instance requests.
PostTarget(endpoint) == buildFullPath(DefaultAxiosBaseURL, endpoint)

\* The body of the POST: { token: <stored refresh token> }.
PostPayload(st) == <<"token", StoredRefreshToken(st)>>

\* The synchronous part of obtainNewAccessToken: the configuration check, then
\* the POST with the stored refresh token as payload.
obtainStart_PostsAnyway(st) == [NoAttempt EXCEPT !.phase = "posting", !.posted = TRUE, !.target = PostTarget(options.accessTokenRefresherEndpoint), !.payload = PostPayload(st)]

obtainStart(st) ==
    IF ~Truthy(options.accessTokenRefresherEndpoint)
    THEN [NoAttempt EXCEPT !.phase = "then", !.result = "rejected", !.fail = "config"]
    ELSE [NoAttempt EXCEPT !.phase = "posting", !.posted = TRUE, !.target = PostTarget(options.accessTokenRefresherEndpoint), !.payload = PostPayload(st)]

\* axios.post rejects for a status outside 2xx and for a transport error.
PostRejects(status) == status = NetworkError \/ status < 200 \/ status >= 300

\* The storage after obtainNewAccessToken resumes with the POST's outcome.
obtainStorage(st, status, at, rt) ==
    IF PostRejects(status) THEN clearStorage(st)
    ELSE IF status = HttpOk
    THEN LET st1 == setStorage(st, options.accessTokenStorage, accessTokenStorageKey, at)
         IN IF Truthy(rt) THEN setStorage(st1, options.refreshTokenStorage, refreshTokenStorageKey, rt) ELSE st1
    ELSE st

obtainSettle_RejectsEmptyToken(att, status, at, rt) ==
    IF PostRejects(status) THEN [att EXCEPT !.phase = "then", !.target = "", !.payload = <<>>, !.status = status, !.result = "rejected", !.fail = "request"]
    ELSE IF status = HttpOk /\ Truthy(at) THEN [att EXCEPT !.phase = "then", !.target = "", !.payload = <<>>, !.status = status, !.result = "fulfilled", !.accessToken = at, !.refreshToken = OrElse(rt, "")]
    ELSE [att EXCEPT !.phase = "then", !.target = "", !.payload = <<>>, !.status = status, !.result = "rejected", !.fail = "status"]

\* The attempt after obtainNewAccessToken resumes with the POST's outcome.
obtainSettle(att, status, at, rt) ==
    IF PostRejects(status) THEN [att EXCEPT !.phase = "then", !.target = "", !.payload = <<>>, !.status = status, !.result = "rejected", !.fail = "request"]
    ELSE IF status = HttpOk THEN [att EXCEPT !.phase = "then", !.target = "", !.payload = <<>>, !.status = status, !.result = "fulfilled", !.accessToken = OrElse(at, ""), !.refreshToken = OrElse(rt, "")]
    ELSE [att EXCEPT !.phase = "then", !.target = "", !.payload = <<>>, !.status = status, !.result = "rejected", !.fail = "status"]

thenStorage_KeysSwapped(st, att) ==
    IF att.result = "fulfilled"
    THEN LET st1 == setStorage(st, options.accessTokenStorage, accessTokenStorageKey, att.refreshToken)
         IN IF Truthy(att.refreshToken) THEN setStorage(st1, options.refreshTokenStorage, refreshTokenStorageKey, att.accessToken) ELSE st1
    ELSE st

thenStorage_AlwaysWritesRefresh(st, att) ==
    IF att.result = "fulfilled"
    THEN setStorage(setStorage(st, options.accessTokenStorage, accessTokenStorageKey, att.accessToken), options.refreshTokenStorage, refreshTokenStorageKey, att.refreshToken)
    ELSE st

\* The storage after the .then reaction of the closure.
thenStorage(st, att) ==
    IF att.result = "fulfilled"
    THEN LET st1 == setStorage(st, options.accessTokenStorage, accessTokenStorageKey, att.accessToken)
         IN IF Truthy(att.refreshToken) THEN setStorage(st1, options.refreshTokenStorage, refreshTokenStorageKey, att.refreshToken) ELSE st1
    ELSE st

RefreshIsRunning_Never(called, promise) == FALSE

\* The guard of the closure: an operation is running.
RefreshIsRunning(called, promise) == called

isCalledAfterSettle_OnlyOnSuccess(result) == result # "fulfilled"

\* isCalled after the .finally reaction of an attempt with the given result.
isCalledAfterSettle_StaysSet(result) == TRUE

isCalledAfterSettle(result) == FALSE

Settled_Never(p) == FALSE

Settled_Always(p) == TRUE

\* A promise a caller awaits has settled; awaiting undefined resumes at once.
Settled(p) == p = 0 \/ attempts[p].phase = "settled"
ResultOf_AlwaysFulfilled(p) == "fulfilled"

ResultOf(p) == IF p = 0 THEN "fulfilled" ELSE attempts[p].result
ValueOf_Undefined(p) == Undefined

ValueOf(p) == IF p = 0 THEN Undefined ELSE attempts[p].accessToken

refreshExpiredToken_AlwaysStart ==
    [isCalled |-> TRUE, runningPromise |-> nAttempts + 1, attempts |-> [attempts EXCEPT ![nAttempts + 1] = obtainStart(storage)], nAttempts |-> nAttempts + 1, promise |-> nAttempts + 1]

\* refreshExpiredToken(): the closure's state after the call and the promise
\* it returns.
refreshExpiredToken_ReuseLast ==
    IF RefreshIsRunning(isCalled, runningPromise) \/ nAttempts > 0
    THEN [isCalled |-> isCalled, runningPromise |-> runningPromise, attempts |-> attempts, nAttempts |-> nAttempts, promise |-> nAttempts]
    ELSE [isCalled |-> TRUE, runningPromise |-> nAttempts + 1, attempts |-> [attempts EXCEPT ![nAttempts + 1] = obtainStart(storage)], nAttempts |-> nAttempts + 1, promise |-> nAttempts + 1]

refreshExpiredToken_FlagNotSet ==
    IF RefreshIsRunning(isCalled, runningPromise)
    THEN [isCalled |-> isCalled, runningPromise |-> runningPromise, attempts |-> attempts, nAttempts |-> nAttempts, promise |-> runningPromise]
    ELSE [isCalled |-> FALSE, runningPromise |-> nAttempts + 1, attempts |-> [attempts EXCEPT ![nAttempts + 1] = obtainStart(storage)], nAttempts |-> nAttempts + 1, promise |-> nAttempts + 1]

refreshExpiredToken ==
    IF RefreshIsRunning(isCalled, runningPromise)
    THEN [isCalled |-> isCalled, runningPromise |-> runningPromise, attempts |-> attempts, nAttempts |-> nAttempts, promise |-> runningPromise]
    ELSE [isCalled |-> TRUE, runningPromise |-> nAttempts + 1, attempts |-> [attempts EXCEPT ![nAttempts + 1] = obtainStart(storage)], nAttempts |-> nAttempts + 1, promise |-> nAttempts + 1]

\* The call is explored while attempts are left.
CanCallRefresh == refreshExpiredToken.nAttempts <= MaxRefresh

isExpired_Flipped(exp, nowMs) == exp * MsPerSecond > nowMs

isExpired_Never(exp, nowMs) == FALSE

\* new Date(decodedToken.exp * 1000) < new Date()
isExpired(exp, nowMs) == exp * MsPerSecond < nowMs

IsRefresherFailure_Never(status, url) == FALSE

IsRefresherFailure_Any401(status, url) == status = HttpUnauthorized

IsRefresherFailure_AnyStatus(status, url) == url = options.accessTokenRefresherEndpoint

\* The first test of the response error interceptor: a 401 of the refresher.
IsRefresherFailure(status, url) == status = HttpUnauthorized /\ url = options.accessTokenRefresherEndpoint

\* Promise reactions run before the next I/O completion is delivered: a
\* reaction is due when an attempt's .then or .finally reaction is pending, or
\* a request's interceptor is to run or to resume and can do so.
ReactionDue(a) == attempts[a].phase \in {"then", "finally"}
InterceptorDue(r) ==
    \/ req[r].pc = "gate" /\ (DecodeFails(StoredAccessToken(storage)) \/ ~isExpired(jwtDecode(StoredAccessToken(storage)).exp, now) \/ CanCallRefresh)
    \/ req[r].pc = "gateWait" /\ Settled(req[r].awaiting)
    \/ req[r].pc = "respErr" /\ (IsRefresherFailure(req[r].errStatus, req[r].url) \/ req[r].errStatus # HttpUnauthorized \/ CanCallRefresh)
    \/ req[r].pc = "recoveryWait" /\ Settled(req[r].awaiting) /\ (ResultOf(req[r].awaiting) = "rejected" \/ req[r].resubmits < MaxResubmit)
JobsDue == (\E a \in AttemptIds : ReactionDue(a)) \/ (\E r \in Requests : InterceptorDue(r))

\* The refresher endpoint (or the network) answers the POST of attempt a. The
\* tokens of the body are read for a 200 only, so the other answers are taken
\* with a body that has none.
PostStatuses == {HttpOk, HttpNoContent, HttpUnauthorized, HttpServerError, NetworkError}
PostAnswers == {ans \in PostStatuses \X RespAccessTokens \X RespRefreshTokens : ans[1] = HttpOk \/ (ans[2] = Undefined /\ ans[3] = Undefined)}

PostSettles(a, status, at, rt) ==
    /\ attempts[a].phase = "posting"
    /\ ~JobsDue
    /\ storage' = obtainStorage(storage, status, at, rt)
    /\ attempts' = [attempts EXCEPT ![a] = obtainSettle(attempts[a], status, at, rt)]
    /\ UNCHANGED <<options, now, isCalled, runningPromise, nAttempts, req>>

ThenReaction(a) ==
    /\ attempts[a].phase = "then"
    /\ storage' = thenStorage(storage, attempts[a])
    /\ attempts' = [attempts EXCEPT ![a].phase = "finally", ![a].refreshToken = "", ![a].status = NetworkError]
    /\ UNCHANGED <<options, now, isCalled, runningPromise, nAttempts, req>>

FinallyReaction(a) ==
    /\ attempts[a].phase = "finally"
    /\ isCalled' = isCalledAfterSettle(attempts[a].result)
    /\ runningPromise' = 0
    /\ attempts' = [attempts EXCEPT ![a].phase = "settled"]
    /\ UNCHANGED <<options, now, storage, nAttempts, req>>

\* ----------------------------------------------------------------- requests
\* One request made through the intercepted client:
\*   "idle"          not made yet
\*   "gate"          resubmitted, the request interceptor is due again
\*   "gateWait"      the request interceptor awaits refreshExpiredToken()
\*   "sent"          dispatched, the server's answer is awaited
\*   "respErr"       the response error interceptor is due
\*   "recoveryWait"  the response error interceptor awaits refreshExpiredToken()
\*   "done"          the caller got a response
\*   "failed"        the caller got a rejection
\* auth is the Authorization header; awaiting the promise awaited; sawRunning
\* the operation found in flight by the last call of refreshExpiredToken (0 if
\* none); obs/obsValue the outcome the last await resumed with; errKind and
\* errStatus the pending or final rejection (errStatus 0: no response).
NewRequest == [pc |-> "idle", url |-> ApiUrl, auth |-> "", awaiting |-> 0, sawRunning |-> 0, obs |-> "none", obsValue |-> "", resubmits |-> 0, errKind |-> "none", errStatus |-> 0]

\* The bookkeeping of the last await is dropped when the request moves on.
Forget(rq) == [rq EXCEPT !.awaiting = 0, !.sawRunning = 0, !.obs = "none", !.obsValue = ""]

\* The request is over for its caller: what stays is how it ended.
Finish(rq, pc) == [NewRequest EXCEPT !.pc = pc, !.url = rq.url, !.obs = rq.obs, !.errKind = rq.errKind, !.errStatus = rq.errStatus]

\* The request after calling refreshExpiredToken() and suspending at waitPc.
Suspend(rq, waitPc, call) == [rq EXCEPT !.pc = waitPc, !.awaiting = call.promise, !.sawRunning = IF isCalled THEN runningPromise ELSE 0, !.obs = "none", !.obsValue = ""]

\* The closure state of a call is installed.
InstallCall(call) ==
    /\ isCalled' = call.isCalled
    /\ runningPromise' = call.runningPromise
    /\ attempts' = call.attempts
    /\ nAttempts' = call.nAttempts

\* axiosInstance(config) and the request interceptor up to its return, its
\* throw or its await. Requests are made in the order of their numbers, with
\* the url the caller gives; a resubmitted request re-enters with its own url.
RequestGate(r, url) ==
    /\ IF req[r].pc = "idle" THEN (IF r = 1 THEN TRUE ELSE req[r - 1].pc # "idle") ELSE req[r].pc = "gate" /\ url = req[r].url
    /\ LET accessToken == StoredAccessToken(storage)
           withAuth == [Forget(req[r]) EXCEPT !.url = url, !.auth = OrElse(accessToken, "")]
       IN IF DecodeFails(accessToken)
          THEN /\ req' = [req EXCEPT ![r] = [withAuth EXCEPT !.pc = "respErr", !.errKind = "decode", !.errStatus = 0]]
               /\ UNCHANGED <<isCalled, runningPromise, attempts, nAttempts>>
          ELSE IF isExpired(jwtDecode(accessToken).exp, now)
          THEN /\ CanCallRefresh
               /\ req' = [req EXCEPT ![r] = Suspend(withAuth, "gateWait", refreshExpiredToken)]
               /\ InstallCall(refreshExpiredToken)
          ELSE /\ req' = [req EXCEPT ![r] = [withAuth EXCEPT !.pc = "sent"]]
               /\ UNCHANGED <<isCalled, runningPromise, attempts, nAttempts>>
    /\ UNCHANGED <<options, now, storage>>

\* The request interceptor resumes from its await.
GateResume(r) ==
    /\ req[r].pc = "gateWait"
    /\ Settled(req[r].awaiting)
    /\ LET p == req[r].awaiting
       IN IF ResultOf(p) = "fulfilled"
          THEN req' = [req EXCEPT ![r].pc = "sent", ![r].auth = ValueOf(p), ![r].obs = "fulfilled", ![r].obsValue = ValueOf(p)]
          ELSE req' = [req EXCEPT ![r].pc = "respErr", ![r].errKind = "refresh", ![r].errStatus = 0, ![r].obs = "rejected"]
    /\ UNCHANGED <<options, now, storage, isCalled, runningPromise, attempts, nAttempts>>

\* The server answers a dispatched request; a 2xx answer passes the response
\* interceptor unchanged.
RequestStatuses == {HttpOk, HttpUnauthorized, HttpServerError}

ServerResponds(r, status) ==
    /\ req[r].pc = "sent"
    /\ ~JobsDue
    /\ IF status = HttpOk
       THEN req' = [req EXCEPT ![r] = Finish(Forget(req[r]), "done")]
       ELSE req' = [req EXCEPT ![r] = [Forget(req[r]) EXCEPT !.pc = "respErr", !.errKind = "response", !.errStatus = status]]
    /\ UNCHANGED <<options, now, storage, isCalled, runningPromise, attempts, nAttempts>>

\* The response error interceptor up to its return or its await. It also gets
\* the rejections of the request interceptor, which carry no response.
ResponseRejected(r) ==
    /\ req[r].pc = "respErr"
    /\ IF IsRefresherFailure(req[r].errStatus, req[r].url)
       THEN /\ storage' = clearStorage(storage)
            /\ req' = [req EXCEPT ![r] = Finish(Forget(req[r]), "failed")]
            /\ UNCHANGED <<isCalled, runningPromise, attempts, nAttempts>>
       ELSE IF req[r].errStatus = HttpUnauthorized
       THEN /\ CanCallRefresh
            /\ req' = [req EXCEPT ![r] = Suspend(req[r], "recoveryWait", refreshExpiredToken)]
            /\ InstallCall(refreshExpiredToken)
            /\ UNCHANGED storage
       ELSE /\ req' = [req EXCEPT ![r] = Finish(Forget(req[r]), "failed")]
            /\ UNCHANGED <<storage, isCalled, runningPromise, attempts, nAttempts>>
    /\ UNCHANGED <<options, now>>

\* The response error interceptor resumes from its await: it resubmits the
\* request through the same client, or rejects with the refresh's rejection.
RecoveryResume(r) ==
    /\ req[r].pc = "recoveryWait"
    /\ Settled(req[r].awaiting)
    /\ LET p == req[r].awaiting
       IN IF ResultOf(p) = "fulfilled"
          THEN /\ req[r].resubmits < MaxResubmit
               /\ req' = [req EXCEPT ![r].pc = "gate", ![r].auth = ValueOf(p), ![r].obs = "fulfilled", ![r].obsValue = ValueOf(p), ![r].resubmits = @ + 1, ![r].errKind = "none", ![r].errStatus = 0]
          ELSE req' = [req EXCEPT ![r] = [Finish(req[r], "failed") EXCEPT !.errKind = "refresh", !.errStatus = 0, !.obs = "rejected"]]
    /\ UNCHANGED <<options, now, storage, isCalled, runningPromise, attempts, nAttempts>>

\* Time passes.
Tick ==
    /\ now < MaxNowSec * MsPerSecond
    /\ now' = now + MsPerSecond
    /\ UNCHANGED <<options, storage, isCalled, runningPromise, attempts, nAttempts, req>>

\* ------------------------------------------------------------ specification
Init ==
    /\ options \in OptionSet
    /\ now = StartSec * MsPerSecond
    /\ \E p \in InitTokenPairs : storage = InitialStorage(options, p[1], p[2])
    /\ isCalled = FALSE
    /\ runningPromise = 0
    /\ attempts = [a \in AttemptIds |-> NoAttempt]
    /\ nAttempts = 0
    /\ req = [r \in Requests |-> NewRequest]

Next ==
    \/ \E r \in Requests, url \in Urls : RequestGate(r, url)
    \/ \E r \in Requests : GateResume(r)
    \/ \E r \in Requests, status \in RequestStatuses : ServerResponds(r, status)
    \/ \E r \in Requests : ResponseRejected(r)
    \/ \E r \in Requests : RecoveryResume(r)
    \/ \E a \in AttemptIds, ans \in PostAnswers : PostSettles(a, ans[1], ans[2], ans[3])
    \/ \E a \in AttemptIds : ThenReaction(a)
    \/ \E a \in AttemptIds : FinallyReaction(a)
    \/ Tick

Spec == Init /\ [][Next]_vars

\* The event loop runs every job that is queued: the reactions of a settled
\* POST and the interceptor code that is due are taken in the end. That the
\* refresher endpoint answers every POST is the hypothesis of the liveness
\* claim, stated as fairness of PostSettles. Nothing is assumed of the
\* callers, of the other servers or of the clock.
Fairness ==
    /\ WF_vars(\E a \in AttemptIds, ans \in PostAnswers : PostSettles(a, ans[1], ans[2], ans[3]))
    /\ WF_vars(\E a \in AttemptIds : ThenReaction(a))
    /\ WF_vars(\E a \in AttemptIds : FinallyReaction(a))
    /\ WF_vars(\E r \in Requests : GateResume(r))
    /\ WF_vars(\E r \in Requests : RecoveryResume(r))
    /\ WF_vars(\E r \in Requests : ResponseRejected(r))
    /\ WF_vars(\E r \in Requests : req[r].pc = "gate" /\ RequestGate(r, req[r].url))

FairSpec == Init /\ [][Next]_vars /\ Fairness

\* The same client constructed with the options the README documents.
DocumentedInit ==
    /\ options \in DocumentedOptionSet
    /\ now = StartSec * MsPerSecond
    /\ \E p \in InitTokenPairs : storage = InitialStorage(options, p[1], p[2])
    /\ isCalled = FALSE
    /\ runningPromise = 0
    /\ attempts = [a \in AttemptIds |-> NoAttempt]
    /\ nAttempts = 0
    /\ req = [r \in Requests |-> NewRequest]

DocumentedSpec == DocumentedInit /\ [][Next]_vars

\* ------------------------------------------------------- the store alone
\* setStorage and clearStorage applied in any order, to every backend and
\* key, starting from a page that holds nothing.
StoreValues == {"A1", "R1", SemicolonToken}

StoreSet(s, key, value) ==
    /\ storage' = setStorage(storage, s, key, value)
    /\ UNCHANGED <<options, now, isCalled, runningPromise, attempts, nAttempts, req>>

StoreClear ==
    /\ storage' = clearStorage(storage)
    /\ UNCHANGED <<options, now, isCalled, runningPromise, attempts, nAttempts, req>>

StoreInit ==
    /\ options \in OptionSet
    /\ now = StartSec * MsPerSecond
    /\ storage = EmptyStorage
    /\ isCalled = FALSE
    /\ runningPromise = 0
    /\ attempts = [a \in AttemptIds |-> NoAttempt]
    /\ nAttempts = 0
    /\ req = [r \in Requests |-> NewRequest]

StoreNext ==
    \/ \E s \in Storages, key \in StorageKeys, value \in StoreValues : StoreSet(s, key, value)
    \/ StoreClear

StoreSpec == StoreInit /\ [][StoreNext]_vars

\* ------------------------------------------------------------------- claims
Unsettled(a) == attempts[a].phase \in {"posting", "then", "finally"}
Waiting(r) == req[r].pc \in {"gateWait", "recoveryWait"}
EndpointConfigured == Truthy(options.accessTokenRefresherEndpoint)

\* C1: in every reachable state at most one POST to the refresher endpoint is
\* in flight, whatever the number of requests and however the callers from
\* the request interceptor and from the response error interceptor interleave.
C1_AtMostOnePostInFlight == Cardinality({a \in AttemptIds : attempts[a].phase = "posting"}) <= 1

\* A POST is in flight and awaited by one request suspended in the request
\* interceptor and one suspended in the response error interceptor.
C1_Witness == \E a \in AttemptIds, r1, r2 \in Requests : attempts[a].phase = "posting" /\ req[r1].pc = "gateWait" /\ req[r2].pc = "recoveryWait" /\ req[r1].awaiting = a /\ req[r2].awaiting = a

\* C2: requests that are suspended in the request interceptor at the same
\* time, before the refresh they wait for has settled, wait for one and the
\* same attempt, which issued its single POST, and those of them that are
\* sent carry the access token that attempt resolved with.
GateSuspended(r) == req[r].pc = "gateWait" /\ ~Settled(req[r].awaiting)
SentAfterGate(r) == req[r].pc = "sent" /\ req[r].obs = "fulfilled"

C2_ConcurrentExpiredShareOneRefresh ==
    /\ \A r1, r2 \in Requests : GateSuspended(r1) /\ GateSuspended(r2) => req[r1].awaiting = req[r2].awaiting
    /\ \A r \in Requests : GateSuspended(r) /\ EndpointConfigured => attempts[req[r].awaiting].posted /\ Cardinality({a \in AttemptIds : Unsettled(a) /\ attempts[a].posted}) = 1
    /\ \A r \in Requests : SentAfterGate(r) => req[r].awaiting # 0 /\ req[r].auth = attempts[req[r].awaiting].accessToken
    /\ \A r1, r2 \in Requests : SentAfterGate(r1) /\ SentAfterGate(r2) /\ req[r1].awaiting = req[r2].awaiting => req[r1].auth = req[r2].auth

\* All requests were suspended on the first refresh and have been sent with
\* the token it returned, after a single POST.
C2_Witness == nAttempts = 1 /\ attempts[1].posted /\ \A r \in Requests : SentAfterGate(r) /\ req[r].awaiting = 1 /\ req[r].resubmits = 0 /\ req[r].auth = "A3"

\* C3: a caller of refreshExpiredToken that finds an operation running awaits
\* that very operation (so no attempt is started for it), and all callers
\* that awaited the same operation resume with the same outcome: the same
\* access token, or the same rejection.
C3_JoinersShareRunningOperation ==
    /\ \A r \in Requests : req[r].sawRunning # 0 => req[r].awaiting = req[r].sawRunning
    /\ \A r \in Requests : req[r].obs # "none" /\ req[r].awaiting # 0 => req[r].obs = attempts[req[r].awaiting].result /\ (req[r].obs = "fulfilled" => req[r].obsValue = attempts[req[r].awaiting].accessToken)
    /\ \A r1, r2 \in Requests : req[r1].awaiting # 0 /\ req[r1].awaiting = req[r2].awaiting /\ req[r1].obs # "none" /\ req[r2].obs # "none" => req[r1].obs = req[r2].obs /\ req[r1].obsValue = req[r2].obsValue

\* A request that started a refresh and one that joined it while it was
\* running have both resumed with its rejection.
C3_Witness == \E r1, r2 \in Requests : r1 # r2 /\ req[r1].sawRunning = 0 /\ req[r1].awaiting = 1 /\ req[r2].sawRunning = 1 /\ req[r1].obs = "rejected" /\ req[r2].obs = "rejected"

\* C4: a 401 from a non-refresher endpoint causes exactly one refresh and one
\* resubmission: a request is resubmitted at most once, even when the server
\* answers 401 every time.
C4_AtMostOneResubmission == \A r \in Requests : req[r].resubmits <= 1

\* C5: whenever a refresh attempt fails (an error status or a transport error,
\* a status other than 200 that the client does not raise, or a missing
\* endpoint configuration), both stored tokens are cleared when it rejects.
C5_AnyFailureClearsStorage == \A a \in AttemptIds : attempts[a].phase = "then" /\ attempts[a].result = "rejected" => StoredAccessToken(storage) = "" /\ StoredRefreshToken(storage) = ""

StorageCleared == StoredAccessToken(storage) = "" /\ StoredRefreshToken(storage) = ""

\* C6: when the refresher answers the refresh with an error status or the
\* transport fails, both stored tokens are the empty string once it has
\* failed, the coordinator's promise rejects, every request that awaited it
\* fails with that rejection without being sent or resubmitted, and the
\* coordinator starts no further attempt by itself.
C6_FailedStateInv ==
    /\ \A a \in AttemptIds : attempts[a].fail = "request" => attempts[a].result = "rejected" /\ (Unsettled(a) => StorageCleared)
    /\ \A r \in Requests : req[r].obs = "rejected" \/ req[r].errKind = "refresh" => req[r].pc \in {"respErr", "failed"} /\ req[r].errKind = "refresh"

C6_FailedStep ==
    /\ \A r \in Requests : Waiting(r) /\ Settled(req[r].awaiting) /\ ResultOf(req[r].awaiting) = "rejected" /\ req'[r] # req[r] => req'[r].pc \in {"respErr", "failed"} /\ req'[r].errKind = "refresh" /\ req'[r].resubmits <= req[r].resubmits /\ nAttempts' = nAttempts
    /\ \A r \in Requests : req[r].pc = "respErr" /\ req[r].errKind = "refresh" /\ req'[r] # req[r] => req'[r].pc = "failed" /\ req'[r].errKind = "refresh" /\ req'[r].resubmits <= req[r].resubmits /\ nAttempts' = nAttempts
    /\ req' = req => nAttempts' = nAttempts /\ \A a \in AttemptIds : attempts'[a].posted = attempts[a].posted

C6_RefreshErrorClearsAndRejects == []C6_FailedStateInv /\ [][C6_FailedStep]_vars

\* The first refresh failed on the refresher's answer; a request that awaited
\* it in the request interceptor and one that awaited it in the response
\* error interceptor have both failed with its rejection; the store is empty.
C6_Witness == \E r1, r2 \in Requests : nAttempts = 1 /\ attempts[1].fail = "request" /\ attempts[1].phase = "settled" /\ StorageCleared /\ req[r1].pc = "failed" /\ req[r1].errKind = "refresh" /\ req[r1].obs = "none" /\ req[r2].pc = "failed" /\ req[r2].errKind = "refresh" /\ req[r2].obs = "rejected"

\* C7: the closure is Running exactly while its attempt has not settled: once
\* the attempt settles (fulfilled or rejected) it is Idle, and a call made
\* when no attempt is unsettled starts a new attempt (with a new POST when the
\* endpoint is configured) instead of returning a settled one.
C7_IdleStateInv ==
    /\ \A a \in AttemptIds : Unsettled(a) => isCalled /\ runningPromise = a
    /\ isCalled => runningPromise # 0 /\ Unsettled(runningPromise)

C7_NextCallStartsAnew ==
    \A r \in Requests : ~Waiting(r) /\ req'[r].pc \in {"gateWait", "recoveryWait"} /\ (\A a \in AttemptIds : ~Unsettled(a)) =>
        /\ nAttempts' = nAttempts + 1
        /\ req'[r].awaiting = nAttempts + 1
        /\ isCalled' /\ runningPromise' = nAttempts + 1
        /\ attempts'[nAttempts + 1].phase = IF EndpointConfigured THEN "posting" ELSE "then"
        /\ attempts'[nAttempts + 1].posted = EndpointConfigured

C7_SettledMeansIdle == []C7_IdleStateInv /\ [][C7_NextCallStartsAnew]_vars

\* The first attempt settled with a rejection and a later call has a second
\* POST in flight.
C7_Witness == nAttempts = 2 /\ attempts[1].phase = "settled" /\ attempts[1].result = "rejected" /\ attempts[2].phase = "posting" /\ isCalled

\* C8: a 401 from the refresher endpoint clears both stored tokens and rejects
\* without retry, whether it answers a request made through the client or the
\* coordinator's own POST: no refresh is started and nothing is resubmitted.
C8_Refresher401Step ==
    /\ \A r \in Requests : req[r].pc = "respErr" /\ req[r].errStatus = HttpUnauthorized /\ req[r].url = options.accessTokenRefresherEndpoint /\ req'[r] # req[r] =>
           /\ req'[r].pc = "failed" /\ req'[r].errStatus = HttpUnauthorized /\ req'[r].resubmits <= req[r].resubmits
           /\ StoredAccessToken(storage') = "" /\ StoredRefreshToken(storage') = ""
           /\ nAttempts' = nAttempts /\ attempts' = attempts
    /\ \A a \in AttemptIds : attempts[a].phase = "posting" /\ attempts'[a].phase = "then" /\ attempts'[a].status = HttpUnauthorized =>
           /\ attempts'[a].result = "rejected"
           /\ StoredAccessToken(storage') = "" /\ StoredRefreshToken(storage') = ""
           /\ nAttempts' = nAttempts /\ req' = req

C8_Refresher401IsTerminal == [][C8_Refresher401Step]_vars

\* A request to the refresher endpoint that was sent with the stored token
\* has failed with its 401, no refresh was ever started, the store is empty.
C8_Witness == \E r \in Requests : req[r].pc = "failed" /\ req[r].url = RefresherUrl /\ EndpointConfigured /\ req[r].errKind = "response" /\ req[r].errStatus = HttpUnauthorized /\ nAttempts = 0 /\ StorageCleared

\* C9: when the stored access token decodes to an expiry later than the
\* current time, the request interceptor does not call the coordinator and the
\* request is sent with that stored token as its Authorization header.
C9_ValidTokenStep ==
    \A r \in Requests : req[r].pc \in {"idle", "gate"} /\ req'[r] # req[r] /\ StoredAccessToken(storage) \in WellFormed /\ JwtExp[StoredAccessToken(storage)] * MsPerSecond > now =>
        /\ req'[r].pc = "sent" /\ req'[r].auth = StoredAccessToken(storage)
        /\ nAttempts' = nAttempts /\ attempts' = attempts /\ isCalled' = isCalled /\ runningPromise' = runningPromise

C9_ValidTokenNeverRefreshes == [][C9_ValidTokenStep]_vars

\* A request has passed the request interceptor without an await and is on
\* the wire with a stored token that is not expired.
C9_Witness == \E r \in Requests : req[r].pc = "sent" /\ req[r].obs = "none" /\ req[r].auth \in WellFormed /\ JwtExp[req[r].auth] * MsPerSecond > now /\ req[r].auth = StoredAccessToken(storage)

\* C10: when decoding the stored access token fails in the request
\* interceptor, the token is treated as expired and the decode error is never
\* surfaced: no request is rejected with the decode error.
C10_DecodeErrorNotSurfaced == \A r \in Requests : req[r].errKind # "decode"


\* C11: a request reaches the network only from the request interceptor, and
\* then it carries either the stored token, which the interceptor decoded and
\* found not expired at that moment, or the token of the refresh it was
\* suspended on, which was unsettled when the request suspended and has
\* fulfilled when it is sent.
C11_GateStep ==
    \A r \in Requests :
        /\ req[r].pc # "sent" /\ req'[r].pc = "sent" =>
               \/ /\ req[r].pc \in {"idle", "gate"}
                  /\ StoredAccessToken(storage) \in WellFormed
                  /\ ~(JwtExp[StoredAccessToken(storage)] * MsPerSecond < now)
                  /\ req'[r].auth = StoredAccessToken(storage)
               \/ /\ req[r].pc = "gateWait"
                  /\ req[r].awaiting \in AttemptIds
                  /\ attempts[req[r].awaiting].phase = "settled"
                  /\ attempts[req[r].awaiting].result = "fulfilled"
                  /\ req'[r].auth = attempts[req[r].awaiting].accessToken
        /\ req[r].pc # "gateWait" /\ req'[r].pc = "gateWait" =>
               /\ StoredAccessToken(storage) \in WellFormed
               /\ JwtExp[StoredAccessToken(storage)] * MsPerSecond < now
               /\ req'[r].awaiting \in AttemptIds
               /\ attempts'[req'[r].awaiting].phase \in {"posting", "then", "finally"}

C11_NoExpiredTokenLeavesGate == [][C11_GateStep]_vars

\* One request was suspended on the first refresh and is on the wire with the
\* token it returned; another found that token stored and not expired and is
\* on the wire with it, without any await.
C11_Witness == \E r1, r2 \in Requests : req[r1].pc = "sent" /\ req[r1].obs = "fulfilled" /\ req[r1].awaiting = 1 /\ req[r1].auth = "A2" /\ req[r2].pc = "sent" /\ req[r2].obs = "none" /\ req[r2].auth = "A2" /\ nAttempts = 1


\* C12: a refresh answered with status 200, access token a and refresh token
\* r leaves a under the access-token key and r under the refresh-token key,
\* from the moment obtainNewAccessToken resumes until the coordinator's
\* promise settles, and that promise fulfils with a.
C12_SuccessStep ==
    \A a \in AttemptIds :
        /\ attempts[a].phase = "posting" /\ attempts'[a].phase = "then" /\ attempts'[a].status = HttpOk =>
               /\ attempts'[a].result = "fulfilled"
               /\ Truthy(attempts'[a].accessToken) => StoredAccessToken(storage') = attempts'[a].accessToken
               /\ Truthy(attempts'[a].refreshToken) => StoredRefreshToken(storage') = attempts'[a].refreshToken
        /\ attempts[a].phase = "then" /\ attempts[a].result = "fulfilled" /\ attempts'[a] # attempts[a] =>
               /\ attempts'[a].phase = "finally" /\ attempts'[a].result = "fulfilled"
               /\ attempts'[a].accessToken = attempts[a].accessToken
               /\ Truthy(attempts[a].accessToken) => StoredAccessToken(storage') = attempts[a].accessToken
               /\ Truthy(attempts[a].accessToken) /\ Truthy(attempts[a].refreshToken) => StoredRefreshToken(storage') = attempts[a].refreshToken
        /\ attempts[a].phase = "finally" /\ attempts[a].result = "fulfilled" /\ attempts'[a] # attempts[a] =>
               /\ attempts'[a].phase = "settled" /\ attempts'[a].result = "fulfilled"
               /\ attempts'[a].accessToken = attempts[a].accessToken
               /\ storage' = storage
               /\ Truthy(attempts[a].accessToken) => StoredAccessToken(storage') = attempts[a].accessToken
        /\ attempts[a].phase \in {"then", "finally"} /\ attempts'[a] = attempts[a] => storage' = storage

C12_SuccessStoresPairAndResolves == [][C12_SuccessStep]_vars

\* The first refresh was answered with A2 and R2 over a stored R1: it has
\* settled, a caller resumed with A2, and the store holds A2 and R2.
C12_Witness == \E r \in Requests : nAttempts = 1 /\ attempts[1].phase = "settled" /\ attempts[1].result = "fulfilled" /\ attempts[1].accessToken = "A2" /\ req[r].awaiting = 1 /\ req[r].obsValue = "A2" /\ StoredAccessToken(storage) = "A2" /\ StoredRefreshToken(storage) = "R2"


\* C13: a request suspended on a refresh, in the request interceptor or in the
\* response error interceptor, moves on only when that refresh has settled: it
\* is neither sent nor resubmitted before, and the requests that resumed from
\* the same fulfilled refresh all got the token it resolved with.
C13_ResumedInv ==
    /\ \A r \in Requests : req[r].obs = "fulfilled" => req[r].awaiting \in AttemptIds /\ attempts[req[r].awaiting].phase = "settled" /\ req[r].obsValue = attempts[req[r].awaiting].accessToken
    /\ \A r1, r2 \in Requests : req[r1].obs = "fulfilled" /\ req[r2].obs = "fulfilled" /\ req[r1].awaiting = req[r2].awaiting => req[r1].obsValue = req[r2].obsValue

C13_ResumeStep ==
    \A r \in Requests : req[r].pc \in {"gateWait", "recoveryWait"} /\ req'[r] # req[r] =>
        /\ req[r].awaiting \in AttemptIds
        /\ attempts[req[r].awaiting].phase = "settled"
        /\ attempts'[req[r].awaiting] = attempts[req[r].awaiting]
        /\ req'[r].pc \in {"sent", "gate"} => req'[r].auth = attempts[req[r].awaiting].accessToken

C13_ResumeOnlyAfterSettle == []C13_ResumedInv /\ [][C13_ResumeStep]_vars

\* Two requests waited on the first refresh, the second of them having found
\* it running from the response error interceptor; it has settled and both
\* moved on with its token: one is on the wire, the other is resubmitted.
C13_Witness == \E r1, r2 \in Requests : req[r1].awaiting = 1 /\ req[r2].awaiting = 1 /\ req[r1].sawRunning = 0 /\ req[r2].sawRunning = 1 /\ req[r1].pc = "sent" /\ req[r1].obs = "fulfilled" /\ req[r2].pc = "gate" /\ req[r2].resubmits = 1 /\ req[r2].obs = "fulfilled" /\ req[r1].obsValue = "A3" /\ req[r2].obsValue = "A3"


\* C14 (as claimed): every change of the token store is made by the refresh
\* operation, that is, in a step in which obtainNewAccessToken resumes from
\* its POST or the .then reaction of the closure runs; the request interceptor
\* and the response error interceptor never change it.
C14_CoordinatorStep == \E a \in AttemptIds : attempts[a].phase \in {"posting", "then"} /\ attempts'[a].phase # attempts[a].phase /\ req' = req

C14_OnlyCoordinatorMutatesStore == [][storage' # storage => C14_CoordinatorStep]_vars

\* C14 (amended): the token store is changed only by the refresh operation
\* and by the terminal branch of the response error interceptor, which clears
\* both entries on a 401 whose request url is the refresher endpoint; the
\* request interceptor and the other branches of the response error
\* interceptor leave the store as it is.
C14_TerminalClearStep == \E r \in Requests : req[r].pc = "respErr" /\ req[r].errStatus = HttpUnauthorized /\ req[r].url = options.accessTokenRefresherEndpoint /\ req'[r].pc = "failed" /\ attempts' = attempts /\ StoredAccessToken(storage') = "" /\ StoredRefreshToken(storage') = ""

C14_StoreFrameStep ==
    /\ storage' # storage => C14_CoordinatorStep \/ C14_TerminalClearStep
    /\ \A r \in Requests : req'[r] # req[r] /\ ~(req[r].pc = "respErr" /\ req[r].errStatus = HttpUnauthorized /\ req[r].url = options.accessTokenRefresherEndpoint) => storage' = storage

C14_StoreMutatedByRefreshOrTerminalClear == [][C14_StoreFrameStep]_vars

\* The first refresh stored A3, and later a request to the refresher endpoint
\* was answered 401: the response error interceptor has emptied the store.
C14_Witness == \E r \in Requests : req[r].pc = "failed" /\ req[r].url = RefresherUrl /\ req[r].errStatus = HttpUnauthorized /\ nAttempts = 1 /\ attempts[1].phase = "settled" /\ attempts[1].result = "fulfilled" /\ attempts[1].accessToken = "A3" /\ StoredAccessToken(storage) = "" /\ StoredRefreshToken(storage) = ""


\* C15: when the refresh a request awaits in the request interceptor rejects,
\* the request fails with that rejection: it is never dispatched, it starts no
\* refresh and is not resubmitted, and the header it carries is the stored
\* token that was put on it before the await.
C15_RejectedInv == \A r \in Requests : req[r].errKind = "refresh" => req[r].pc \in {"respErr", "failed"}

C15_GateRejectStep ==
    \A r \in Requests :
        /\ req[r].pc # "gateWait" /\ req'[r].pc = "gateWait" => req'[r].auth = OrElse(StoredAccessToken(storage), "")
        /\ req[r].pc = "gateWait" /\ req[r].awaiting \in AttemptIds /\ attempts[req[r].awaiting].phase = "settled" /\ attempts[req[r].awaiting].result = "rejected" /\ req'[r] # req[r] =>
               /\ req'[r].pc = "respErr" /\ req'[r].errKind = "refresh" /\ req'[r].errStatus = 0
               /\ req'[r].auth = req[r].auth /\ req'[r].resubmits = req[r].resubmits
               /\ nAttempts' = nAttempts /\ attempts' = attempts /\ storage' = storage
        /\ req[r].pc = "respErr" /\ req[r].errKind = "refresh" /\ req'[r] # req[r] =>
               /\ req'[r].pc = "failed" /\ req'[r].errKind = "refresh"
               /\ nAttempts' = nAttempts /\ attempts' = attempts /\ storage' = storage

C15_GateFailsWithRefreshRejection == []C15_RejectedInv /\ [][C15_GateRejectStep]_vars

\* The refresher answered 204, so the first refresh rejected; the request
\* that awaited it in the request interceptor has the rejection delivered and
\* still carries the expired token A1, never having been sent.
C15_Witness == \E r \in Requests : req[r].pc = "respErr" /\ req[r].errKind = "refresh" /\ req[r].obs = "rejected" /\ req[r].awaiting = 1 /\ attempts[1].fail = "status" /\ req[r].auth = "A1" /\ req[r].resubmits = 0


\* C16: a successful response reaches the caller as it is, and so does a
\* failure whose status is not 401 (or that has no response at all): the
\* response interceptors start no refresh, leave the token store unchanged and
\* do not resubmit the request.
C16_PassThroughStep ==
    \A r \in Requests :
        /\ req[r].pc = "sent" /\ req'[r].pc = "done" =>
               /\ req'[r].errKind = "none"
               /\ storage' = storage /\ nAttempts' = nAttempts /\ attempts' = attempts /\ isCalled' = isCalled
        /\ req[r].pc = "respErr" /\ req[r].errStatus # HttpUnauthorized /\ req'[r] # req[r] =>
               /\ req'[r].pc = "failed" /\ req'[r].errKind = req[r].errKind /\ req'[r].errStatus = req[r].errStatus
               /\ storage' = storage /\ nAttempts' = nAttempts /\ attempts' = attempts /\ isCalled' = isCalled

C16_NonUnauthorizedPassesThrough == [][C16_PassThroughStep]_vars

\* One request was answered 200 and another 500: the callers have the
\* response and the error, no refresh was started, the stored pair is intact.
C16_Witness == \E r1, r2 \in Requests : req[r1].pc = "done" /\ req[r2].pc = "failed" /\ req[r2].errKind = "response" /\ req[r2].errStatus = HttpServerError /\ req[r2].url = RefresherUrl /\ EndpointConfigured /\ nAttempts = 0 /\ StoredAccessToken(storage) = "A2" /\ StoredRefreshToken(storage) = "R1"


\* C17: the Authorization header of every request that is dispatched, be it
\* straight through the request interceptor (first pass or resubmission) or
\* after a proactive refresh, is "Bearer <token>" when isBearer is true and
\* the raw token otherwise.
AuthorizationFor(token) == IF options.isBearer THEN "Bearer " \o token ELSE token

C17_HeaderStep ==
    \A r \in Requests :
        /\ req[r].pc \in {"idle", "gate"} /\ req'[r].pc = "sent" => req'[r].auth = AuthorizationFor(StoredAccessToken(storage))
        /\ req[r].pc = "gateWait" /\ req'[r].pc = "sent" => req'[r].auth = AuthorizationFor(attempts[req[r].awaiting].accessToken)

C17_AuthorizationFollowsIsBearer == [][C17_HeaderStep]_vars


\* C18: the POST of a refresh goes to the configured endpoint itself when that
\* is an absolute URL, and to the endpoint resolved against baseURL when it is
\* a relative path.
C18_PostTargetResolved == \A a \in AttemptIds : attempts[a].phase = "posting" => attempts[a].target = (IF isAbsoluteURL(options.accessTokenRefresherEndpoint) THEN options.accessTokenRefresherEndpoint ELSE combineURLs(options.baseURL, options.accessTokenRefresherEndpoint))

\* C19: the body of the POST of a refresh is what the configured
\* tokenRefresherPayloadGenerator makes of the refresh token stored when the
\* refresh starts, and { token: that refresh token } when none is configured.
PayloadFor(refreshToken) == IF Truthy(options.tokenRefresherPayloadGenerator) THEN <<options.tokenRefresherPayloadGenerator, refreshToken>> ELSE <<"token", refreshToken>>

C19_PayloadStep == \A a \in AttemptIds : attempts[a].phase = "none" /\ attempts'[a].phase = "posting" => attempts'[a].payload = PayloadFor(StoredRefreshToken(storage))

C19_PayloadFromGenerator == [][C19_PayloadStep]_vars


\* C20: on each of the three backends and for each key, reading a key right
\* after a token value was set under it gives that value back, and reading a
\* key that was never set, or was cleared, gives the empty string.
C20_Absent(st, s, key) == IF s = "cookie" THEN key \notin CookieNames(st.cookie) \/ getCookieValue(st.cookie, key) = "" ELSE st[s][key] \in {Null, ""}

C20_AbsentReadsEmpty == \A s \in Storages, key \in StorageKeys : C20_Absent(storage, s, key) => getStorage(storage, s, key, "") = ""

C20_SetThenGet == \A s \in Storages, key \in StorageKeys, value \in StoreValues : storage' = setStorage(storage, s, key, value) => getStorage(storage', s, key, "") = value

C20_StoreRoundTrip == []C20_AbsentReadsEmpty /\ [][C20_SetThenGet]_vars


\* C21 (as claimed): a request resubmitted by the response error interceptor
\* reaches the network with exactly the token the refresh that interceptor
\* awaited resolved with, and with the url of the request that failed. (Until
\* a resubmitted request leaves the request interceptor, its auth field holds
\* the token its awaited refresh resolved with and stored.)
C21_ResubmitStep == \A r \in Requests : req[r].resubmits > 0 /\ req[r].pc \in {"gate", "gateWait"} /\ req'[r].pc = "sent" => req'[r].auth = req[r].auth /\ req'[r].url = req[r].url

C21_ResubmitGateStep ==
    \A r \in Requests :
        /\ req[r].pc = "gate" /\ req'[r] # req[r] =>
               /\ req'[r].url = req[r].url
               /\ \/ /\ req'[r].pc = "sent"
                     /\ req'[r].auth = attempts[req[r].awaiting].accessToken
                     /\ req'[r].auth = StoredAccessToken(storage)
                     /\ req'[r].auth \in WellFormed /\ ~(JwtExp[req'[r].auth] * MsPerSecond < now)
                  \/ /\ req'[r].pc = "gateWait"
                     /\ StoredAccessToken(storage) \in WellFormed /\ JwtExp[StoredAccessToken(storage)] * MsPerSecond < now
                  \/ /\ req'[r].pc = "respErr" /\ req'[r].errKind = "decode"
                     /\ StoredAccessToken(storage) \notin WellFormed
        /\ req[r].pc = "gateWait" /\ req[r].resubmits > 0 /\ req'[r].pc = "sent" =>
               /\ req'[r].url = req[r].url
               /\ req'[r].auth = attempts[req[r].awaiting].accessToken

C22_NoEndpointFailsWithoutPost ==
    ~EndpointConfigured =>
        /\ \A a \in AttemptIds :
               /\ ~attempts[a].posted /\ attempts[a].phase # "posting" /\ attempts[a].target = ""
               /\ attempts[a].phase # "none" => attempts[a].result = "rejected" /\ attempts[a].fail = "config"
        /\ nAttempts > 0 /\ attempts[nAttempts].phase = "settled" => ~isCalled /\ runningPromise = 0

\* Without an endpoint, an attempt was started and has settled as rejected,
\* the coordinator is idle and the request that awaited it has failed.
C22_Witness == ~EndpointConfigured /\ nAttempts = 1 /\ attempts[1].phase = "settled" /\ attempts[1].fail = "config" /\ ~isCalled /\ \E r \in Requests : req[r].pc = "failed" /\ req[r].errKind = "refresh"


\* C23: for as long as the refresher endpoint has not answered the POST of an
\* attempt, the coordinator stays running with that attempt's promise, the
\* attempt is the last one started (no second POST is issued), and every
\* request that awaits it, those already waiting and those that join later,
\* stays suspended exactly as it is: it neither proceeds nor fails. With a
\* POST that is never answered this lasts forever.
C23_HungInv ==
    \A a \in AttemptIds : attempts[a].phase = "posting" =>
        /\ isCalled /\ runningPromise = a /\ a = nAttempts
        /\ \A b \in AttemptIds : b # a => attempts[b].phase # "posting"
        /\ \A r \in Requests : req[r].awaiting = a => Waiting(r)

C23_HungStep ==
    \A a \in AttemptIds : attempts[a].phase = "posting" /\ attempts'[a].phase = "posting" =>
        /\ nAttempts' = nAttempts /\ attempts' = attempts
        /\ \A r \in Requests :
               /\ req[r].awaiting = a => req'[r] = req[r]
               /\ ~Waiting(r) /\ req'[r].pc \in {"gateWait", "recoveryWait"} => req'[r].awaiting = a

C23_HungRefresherStallsWaiters == []C23_HungInv /\ [][C23_HungStep]_vars

\* The POST of the first attempt is unanswered after the clock has reached
\* its last value; one request waits in the request interceptor, another in
\* the response error interceptor, both for that attempt.
C23_Witness == attempts[1].phase = "posting" /\ now = MaxNowSec * MsPerSecond /\ \E r, q \in Requests : req[r].pc = "gateWait" /\ req[q].pc = "recoveryWait" /\ req[r].awaiting = 1 /\ req[q].awaiting = 1


\* C24: the flag is set in the very step that finds it clear: a step that
\* starts an attempt begins with the flag clear and every earlier attempt
\* settled, and ends with the flag set, the new attempt as the running
\* promise and, when an endpoint is configured, its POST issued; it starts
\* one attempt only, and is the step of one caller, which is left awaiting
\* that attempt. In every state the flag is set exactly while the last
\* attempt started is unsettled, so two callers never both pass the guard
\* for the same idle period.
C24_FlagInv ==
    /\ isCalled <=> (nAttempts > 0 /\ Unsettled(nAttempts))
    /\ isCalled => runningPromise = nAttempts
    /\ \A a \in AttemptIds : a < nAttempts => attempts[a].phase = "settled"

C24_StartStep ==
    nAttempts' # nAttempts =>
        /\ ~isCalled /\ runningPromise = 0
        /\ \A a \in AttemptIds : a <= nAttempts => attempts[a].phase = "settled"
        /\ nAttempts' = nAttempts + 1
        /\ isCalled' /\ runningPromise' = nAttempts'
        /\ attempts'[nAttempts'].phase # "none"
        /\ EndpointConfigured => attempts'[nAttempts'].phase = "posting" /\ attempts'[nAttempts'].posted
        /\ \E r \in Requests :
               /\ ~Waiting(r)
               /\ req'[r].pc \in {"gateWait", "recoveryWait"} /\ req'[r].awaiting = nAttempts' /\ req'[r].sawRunning = 0
               /\ \A q \in Requests : q # r => req'[q] = req[q]

C24_FlagSetInCheckingStep == []C24_FlagInv /\ [][C24_StartStep]_vars

\* Two callers in one running period: the first found the flag clear and
\* started the POST, the second found it set and waits for the same attempt;
\* one attempt has been started.
C24_Witness == nAttempts = 1 /\ attempts[1].phase = "posting" /\ \E r, q \in Requests : Waiting(r) /\ Waiting(q) /\ req[r].awaiting = 1 /\ req[q].awaiting = 1 /\ req[r].sawRunning = 0 /\ req[q].sawRunning = 1


\* C25 (as claimed): the coordinator is idle whenever a waiter of a settled
\* refresh resumes, and a request that was resumed and resubmitted and then
\* needs another refresh always starts a new attempt.
C25_IdleAtResumeStep ==
    \A r \in Requests :
        /\ Waiting(r) /\ req'[r].pc \notin {"gateWait", "recoveryWait"} => ~isCalled
        /\ req[r].resubmits > 0 /\ ~Waiting(r) /\ req'[r].pc \in {"gateWait", "recoveryWait"} => nAttempts' = nAttempts + 1

C25_IdleWhenWaiterResumes == [][C25_IdleAtResumeStep]_vars

\* C25 (amended): the reset happens before the shared promise settles for
\* its callers: a settled attempt is never the running promise, so when a
\* waiter resumes the operation it awaited is no longer the running one, and
\* a caller of refreshExpiredToken never receives an already settled
\* operation: it starts a new attempt when the coordinator is idle and
\* otherwise joins the unsettled attempt started since, which is newer than
\* any attempt the caller has awaited.
C25_ResetInv == \A a \in AttemptIds : attempts[a].phase = "settled" => runningPromise # a

C25_CallStep ==
    \A r \in Requests :
        /\ Waiting(r) /\ req'[r].pc \notin {"gateWait", "recoveryWait"} => runningPromise # req[r].awaiting
        /\ ~Waiting(r) /\ req'[r].pc \in {"gateWait", "recoveryWait"} =>
               /\ req'[r].awaiting > 0
               /\ attempts'[req'[r].awaiting].phase # "settled"
               /\ req'[r].awaiting > req[r].awaiting
               /\ ~isCalled => nAttempts' = nAttempts + 1 /\ req'[r].awaiting = nAttempts'
               /\ isCalled => nAttempts' = nAttempts /\ req'[r].awaiting = runningPromise

C25_NeverReceivesSettledOperation == []C25_ResetInv /\ [][C25_CallStep]_vars

\* A request awaited the first refresh, was resubmitted, was answered 401
\* again and now awaits the second attempt, whose POST is in flight.
C25_Witness == \E r \in Requests : req[r].pc = "recoveryWait" /\ req[r].resubmits = 1 /\ req[r].awaiting = 2 /\ attempts[1].phase = "settled" /\ attempts[1].result = "fulfilled" /\ attempts[2].phase = "posting"


\* C26: the refresher POST is an operation of the coordinator made outside
\* the intercepted client, so it waits for the endpoint only and never for
\* the running refresh. When the event loop runs what is queued and the
\* endpoint answers every POST: every POST in flight is settled in the end,
\* the coordinator, once running, is idle again in the end, and every request
\* suspended on a refresh leaves its suspension in the end (it is sent,
\* resubmitted or fails).
C26_RefreshAlwaysCompletes ==
    /\ \A a \in AttemptIds : (attempts[a].phase = "posting") ~> (attempts[a].phase = "settled")
    /\ isCalled ~> ~isCalled
    /\ \A r \in Requests : Waiting(r) ~> ~Waiting(r)

\* A request was suspended in the request interceptor while the POST was in
\* flight, the endpoint answered, and the request has resumed and been sent
\* with the coordinator idle again.
C26_Witness == \E r \in Requests : req[r].pc = "sent" /\ req[r].obs = "fulfilled" /\ ~isCalled /\ attempts[1].posted /\ attempts[1].phase = "settled"


\* C27: when a refresh succeeds and the response yields no refresh token
\* (absent or empty), neither obtainNewAccessToken nor the .then reaction
\* touches the stored refresh token: of all the entries of all the stores
\* only the access token's may change.
C27_NoRefreshTokenStep ==
    \A a \in AttemptIds :
        (\/ attempts[a].phase = "posting" /\ attempts'[a].phase = "then" /\ attempts'[a].result = "fulfilled" /\ attempts'[a].refreshToken = ""
         \/ attempts[a].phase = "then" /\ attempts'[a].phase = "finally" /\ attempts[a].result = "fulfilled" /\ attempts[a].refreshToken = "")
        => /\ StoredRefreshToken(storage') = StoredRefreshToken(storage)
           /\ \A s \in Storages \ {options.accessTokenStorage} : storage'[s] = storage[s]
           /\ options.accessTokenStorage # "cookie" => \A k \in StorageKeys \ {accessTokenStorageKey} : storage'[options.accessTokenStorage][k] = storage[options.accessTokenStorage][k]

C27_RefreshTokenKeptWhenNoneReturned == [][C27_NoRefreshTokenStep]_vars

\* The first refresh has succeeded with A3 and no refresh token: the access
\* token stored is A3 and the refresh token stored is still R1.
C27_Witness == nAttempts = 1 /\ attempts[1].phase = "settled" /\ attempts[1].result = "fulfilled" /\ StoredAccessToken(storage) = "A3" /\ StoredRefreshToken(storage) = "R1"


\* C28: a 401 from another url than the refresher's that the response error
\* interceptor handles while the coordinator is idle always starts a new
\* attempt (with its POST, when an endpoint is configured) and leaves the
\* request awaiting it, whatever the stores hold at that moment: the
\* interceptor does not look at the stored token or at the token the request
\* was sent with.
C28_RecoveryStep ==
    \A r \in Requests :
        req[r].pc = "respErr" /\ req[r].errStatus = HttpUnauthorized /\ req[r].url # options.accessTokenRefresherEndpoint /\ ~isCalled /\ req'[r] # req[r]
        => /\ nAttempts' = nAttempts + 1
           /\ req'[r].pc = "recoveryWait" /\ req'[r].awaiting = nAttempts'
           /\ attempts'[nAttempts'].phase # "none"
           /\ EndpointConfigured => attempts'[nAttempts'].posted /\ attempts'[nAttempts'].phase = "posting"

C28_IdleRecoveryStartsNewPost == [][C28_RecoveryStep]_vars

\* Two requests were sent with the same token A2. The 401 of one started the
\* first refresh, which stored A3, and that request was resubmitted; the 401
\* of the other arrived after the refresh had settled, and a second POST is
\* in flight although the stored token is no longer the one it was sent with.
C28_Witness == \E r, q \in Requests : r # q /\ req[r].pc = "recoveryWait" /\ req[r].resubmits = 0 /\ req[r].awaiting = 2 /\ req[r].auth = "A2" /\ attempts[1].phase = "settled" /\ attempts[1].accessToken = "A3" /\ attempts[2].phase = "posting" /\ attempts[2].posted /\ req[q].resubmits = 1 /\ req[q].auth = "A3"


\* C29: a 200 answer whose access token is absent or empty is a successful
\* refresh. obtainNewAccessToken fulfils with the access token "" and does
\* not clear the stored refresh token (it keeps it, or stores the one the
\* answer carries); the promise the callers await fulfils with ""; and each
\* waiter goes on with the empty token: the request interceptor sends its
\* request with an empty Authorization, the response error interceptor
\* resubmits its request with an empty Authorization.
C29_EmptySuccess(att) == att.result = "fulfilled" /\ att.accessToken = ""

C29_EmptyTokenStep ==
    /\ \A a \in AttemptIds :
           /\ attempts[a].phase = "posting" /\ attempts'[a].phase = "then" /\ attempts'[a].status = HttpOk /\ ~Truthy(attempts'[a].accessToken)
              => /\ C29_EmptySuccess(attempts'[a])
                 /\ StoredRefreshToken(storage') = OrElse(attempts'[a].refreshToken, StoredRefreshToken(storage))
           /\ C29_EmptySuccess(attempts[a]) /\ attempts[a].phase \in {"then", "finally"} /\ attempts'[a] # attempts[a]
              => /\ C29_EmptySuccess(attempts'[a])
                 /\ StoredRefreshToken(storage') = OrElse(attempts[a].refreshToken, StoredRefreshToken(storage))
                 /\ attempts[a].phase = "then" => StoredAccessToken(storage') = ""
    /\ \A r \in Requests :
           Waiting(r) /\ req[r].awaiting > 0 /\ req'[r] # req[r] /\ C29_EmptySuccess(attempts[req[r].awaiting])
           => /\ req'[r].auth = "" /\ req'[r].obs = "fulfilled" /\ req'[r].url = req[r].url
              /\ req[r].pc = "gateWait" => req'[r].pc = "sent"
              /\ req[r].pc = "recoveryWait" => req'[r].pc = "gate" /\ req'[r].resubmits = req[r].resubmits + 1

C29_EmptyAccessTokenIsSuccess == [][C29_EmptyTokenStep]_vars

\* The refresher answered 200 without an access token. The attempt fulfilled
\* with "", the refresh token R1 is still stored, one waiter has been sent
\* with an empty Authorization and another has been resubmitted with one.
C29_Witness == attempts[1].phase = "settled" /\ C29_EmptySuccess(attempts[1]) /\ StoredRefreshToken(storage) = "R1" /\ StoredAccessToken(storage) = "" /\ \E r, q \in Requests : req[r].pc = "sent" /\ req[r].auth = "" /\ req[r].obs = "fulfilled" /\ req[q].pc = "gate" /\ req[q].auth = "" /\ req[q].resubmits = 1

====
